---- MODULE Spec2Model ----
(***************************************************************************)
(* Model of the Hyperliquid MCP server (server/src/index.ts): the bridge   *)
(* invoker runBridgeScript with its argument marshalling, the read-        *)
(* resource handler with its URI matching, and the call-tool handler with  *)
(* its dispatch and its error mapping.                                     *)
(*                                                                         *)
(* Text that the code processes character by character (field names, URIs) *)
(* is a sequence of one-character strings; text that the code only passes  *)
(* along is a string.                                                      *)
(***************************************************************************)
EXTENDS Integers, Sequences, FiniteSets, TLC

VARIABLES
    env,        \* process.env: the three HYPERLIQUID_* variables
    started,    \* position of the module's top-level code
    channel,    \* state of the stdio channel to the host
    reqs,       \* the requests in flight, one record per slot
    mIn,        \* marshaller check: the args mapping given to runBridgeScript
    mOut        \* marshaller check: the flags runBridgeScript appended

vars == <<env, started, channel, reqs, mIn, mOut>>

----------------------------------------------------------------------------
(* JavaScript values                                                        *)

Undefined == [t |-> "undefined"]
Null == [t |-> "null"]
Bool(b) == [t |-> "boolean", b |-> b]
Num(n) == [t |-> "number", n |-> n]
Str(s) == [t |-> "string", s |-> s]

\* JSON containers; an object is its entries in insertion order
Arr(a) == [t |-> "array", a |-> a]
Obj(o) == [t |-> "object", o |-> o]

Digits == <<"0", "1", "2", "3", "4", "5", "6", "7", "8", "9">>

RECURSIVE NatToString(_)
NatToString(n) ==
    IF n < 10 THEN Digits[n + 1]
    ELSE NatToString(n \div 10) \o Digits[(n % 10) + 1]

\* Number.prototype.toString on an integer
NumberToString(n) == IF n < 0 THEN "-" \o NatToString(-n) ELSE NatToString(n)

\* String(value)
String(v) ==
    CASE v.t = "undefined" -> "undefined"
      [] v.t = "null" -> "null"
      [] v.t = "boolean" -> (IF v.b THEN "true" ELSE "false")
      [] v.t = "number" -> NumberToString(v.n)
      [] v.t = "string" -> v.s
      [] v.t = "array" -> "<array>"
      [] v.t = "object" -> "[object Object]"

\* ToBoolean(value): the test of `if (v)`, `v ? a : b`, `v || d`
Truthy(v) ==
    CASE v.t = "undefined" -> FALSE
      [] v.t = "null" -> FALSE
      [] v.t = "boolean" -> v.b
      [] v.t = "number" -> v.n # 0
      [] v.t = "string" -> v.s # ""
      [] v.t = "array" -> TRUE
      [] v.t = "object" -> TRUE

----------------------------------------------------------------------------
(* Characters                                                               *)

UpperCase == <<"A", "B", "C", "D", "E", "F", "G", "H", "I", "J", "K", "L", "M",
               "N", "O", "P", "Q", "R", "S", "T", "U", "V", "W", "X", "Y", "Z">>
LowerCase == <<"a", "b", "c", "d", "e", "f", "g", "h", "i", "j", "k", "l", "m",
               "n", "o", "p", "q", "r", "s", "t", "u", "v", "w", "x", "y", "z">>

\* the character class [A-Z]
IsUpper(c) == \E i \in 1..Len(UpperCase) : UpperCase[i] = c

\* String.prototype.toLowerCase on one character
LowerOf(c) ==
    IF IsUpper(c)
    THEN LowerCase[CHOOSE i \in 1..Len(UpperCase) : UpperCase[i] = c]
    ELSE c

RECURSIVE Join(_)
\* the string whose characters are cs
Join(cs) == IF cs = <<>> THEN "" ELSE Head(cs) \o Join(Tail(cs))

RECURSIVE ReplaceUpper(_)
\* key.replace(/([A-Z])/g, '-$1')
ReplaceUpper(key) ==
    IF key = <<>> THEN <<>>
    ELSE (IF IsUpper(Head(key)) THEN <<"-", Head(key)>> ELSE <<Head(key)>>)
         \o ReplaceUpper(Tail(key))

\* s.toLowerCase()
ToLowerCase(s) == [i \in 1..Len(s) |-> LowerOf(s[i])]

\* a variant of FlagName: the hyphen is not inserted
FlagNameNoHyphen(key) == "--" \o Join(ToLowerCase(key))

\* `--${key.replace(/([A-Z])/g, '-$1').toLowerCase()}`
FlagName(key) == "--" \o Join(ToLowerCase(ReplaceUpper(key)))

----------------------------------------------------------------------------
(* runBridgeScript: the argument list                                       *)

RECURSIVE MarshalArgsKeepAbsent(_)
\* a variant of MarshalArgs: only undefined is dropped, and a null value is
\* passed as the text "null"
MarshalArgsKeepAbsent(args) ==
    IF args = <<>> THEN <<>>
    ELSE LET key == Head(args)[1]
             value == Head(args)[2]
         IN (IF value.t = "undefined" THEN <<>>
             ELSE <<FlagName(key), String(value)>>)
            \o MarshalArgsKeepAbsent(Tail(args))

RECURSIVE MarshalArgs(_)
\* Object.entries(args).flatMap(([key, value]) => ...); args is the sequence
\* of its <<key, value>> entries
MarshalArgs(args) ==
    IF args = <<>> THEN <<>>
    ELSE LET key == Head(args)[1]
             value == Head(args)[2]
         IN (IF value.t = "undefined" \/ value.t = "null" THEN <<>>
             ELSE <<FlagName(key), String(value)>>)
            \o MarshalArgs(Tail(args))

----------------------------------------------------------------------------
(* Configuration: the module's top-level constants                          *)

\* const SECRET_KEY = process.env.HYPERLIQUID_SECRET_KEY
SECRET_KEY == env.HYPERLIQUID_SECRET_KEY

\* const ACCOUNT_ADDRESS = process.env.HYPERLIQUID_ACCOUNT_ADDRESS
ACCOUNT_ADDRESS == env.HYPERLIQUID_ACCOUNT_ADDRESS

\* const NETWORK = process.env.HYPERLIQUID_NETWORK || 'mainnet'
NETWORK ==
    IF Truthy(env.HYPERLIQUID_NETWORK) THEN env.HYPERLIQUID_NETWORK
    ELSE Str("mainnet")

\* the keys of the object literals handed to runBridgeScript
K_dataType == <<"d", "a", "t", "a", "T", "y", "p", "e">>
K_coin == <<"c", "o", "i", "n">>
K_interval == <<"i", "n", "t", "e", "r", "v", "a", "l">>
K_startTime == <<"s", "t", "a", "r", "t", "T", "i", "m", "e">>
K_endTime == <<"e", "n", "d", "T", "i", "m", "e">>
K_isBuy == <<"i", "s", "B", "u", "y">>
K_size == <<"s", "i", "z", "e">>
K_price == <<"p", "r", "i", "c", "e">>
K_orderType == <<"o", "r", "d", "e", "r", "T", "y", "p", "e">>
K_reduceOnly == <<"r", "e", "d", "u", "c", "e", "O", "n", "l", "y">>
K_cloid == <<"c", "l", "o", "i", "d">>
K_slippage == <<"s", "l", "i", "p", "p", "a", "g", "e">>
K_oid == <<"o", "i", "d">>
K_leverage == <<"l", "e", "v", "e", "r", "a", "g", "e">>
K_isCross == <<"i", "s", "C", "r", "o", "s", "s">>

\* a variant of BridgeArgs: the account address is passed whenever it is
\* defined, the empty string included
BridgeArgsAddrIfDefined(command, args) ==
    <<command, "--secret-key", String(SECRET_KEY), "--network", String(NETWORK)>>
    \o (IF ACCOUNT_ADDRESS.t # "undefined"
        THEN <<"--account-address", String(ACCOUNT_ADDRESS)>> ELSE <<>>)
    \o MarshalArgs(args)

\* options.args of runBridgeScript(command, args)
BridgeArgs(command, args) ==
    <<command, "--secret-key", String(SECRET_KEY), "--network", String(NETWORK)>>
    \o (IF Truthy(ACCOUNT_ADDRESS)
        THEN <<"--account-address", String(ACCOUNT_ADDRESS)>> ELSE <<>>)
    \o MarshalArgs(args)

----------------------------------------------------------------------------
(* URIs                                                                      *)

StartsWith(s, p) == Len(s) >= Len(p) /\ SubSeq(s, 1, Len(p)) = p
EndsWith(s, x) == Len(s) >= Len(x) /\ SubSeq(s, Len(s) - Len(x) + 1, Len(s)) = x

\* uri.match(/^<prefix>([^/]+)<suffix>$/): the capture group, or <<>> when
\* the pattern does not match (a capture is never empty)
MatchSegment(uri, prefix, suffix) ==
    LET mid == SubSeq(uri, Len(prefix) + 1, Len(uri) - Len(suffix))
    IN IF /\ Len(uri) > Len(prefix) + Len(suffix)
          /\ StartsWith(uri, prefix)
          /\ EndsWith(uri, suffix)
          /\ \A i \in 1..Len(mid) : mid[i] # "/"
       THEN mid ELSE <<>>

HexDigits == <<"0", "1", "2", "3", "4", "5", "6", "7", "8", "9",
               "a", "b", "c", "d", "e", "f">>
IsHex(c) == \E i \in 1..16 : HexDigits[i] = LowerOf(c)
HexVal(c) == (CHOOSE i \in 1..16 : HexDigits[i] = LowerOf(c)) - 1

\* the characters with codes 32..126 (the grave accent, code 96, is spelled out)
Ascii == <<" ", "!", "\"", "#", "$", "%", "&", "'", "(", ")", "*", "+", ",", "-", ".", "/", "0", "1", "2", "3", "4", "5", "6", "7", "8", "9", ":", ";", "<", "=", ">", "?", "@", "A", "B", "C", "D", "E", "F", "G", "H", "I", "J", "K", "L", "M", "N", "O", "P", "Q", "R", "S", "T", "U", "V", "W", "X", "Y", "Z", "[", "\\", "]", "^", "_", "<grave>", "a", "b", "c", "d", "e", "f", "g", "h", "i", "j", "k", "l", "m", "n", "o", "p", "q", "r", "s", "t", "u", "v", "w", "x", "y", "z", "{", "|", "}", "~">>


\* the character a decoded octet sequence stands for: the octet itself when
\* it is printable ASCII, a placeholder otherwise
CharOf(octets) ==
    IF Len(octets) = 1 /\ octets[1] >= 32 /\ octets[1] <= 126
    THEN Ascii[octets[1] - 31]
    ELSE "<U+>"

\* the octet of the escape %XY at position k of s, or -1 when there is none
OctetAt(s, k) ==
    IF k + 2 <= Len(s) /\ s[k] = "%" /\ IsHex(s[k + 1]) /\ IsHex(s[k + 2])
    THEN 16 * HexVal(s[k + 1]) + HexVal(s[k + 2])
    ELSE -1

\* number of continuation octets the UTF-8 lead octet b announces, -1 when
\* b cannot start a sequence
Continuations(b) ==
    CASE b < 128 -> 0
      [] b >= 194 /\ b <= 223 -> 1
      [] b >= 224 /\ b <= 239 -> 2
      [] b >= 240 /\ b <= 244 -> 3
      [] OTHER -> -1

URIError == [ok |-> FALSE, error |-> [class |-> "URIError", message |-> "URI malformed"]]

RECURSIVE Decode(_, _)
\* decodeURIComponent(s) from position k on: [ok |-> TRUE, s |-> decoded], or
\* URIError at an escape that is cut short, is not hexadecimal or is not
\* UTF-8
Decode(s, k) ==
    IF k > Len(s) THEN [ok |-> TRUE, s |-> <<>>]
    ELSE IF s[k] # "%"
    THEN LET rest == Decode(s, k + 1)
         IN IF rest.ok THEN [ok |-> TRUE, s |-> <<s[k]>> \o rest.s] ELSE rest
    ELSE LET b == OctetAt(s, k)
             n == IF b < 0 THEN -1 ELSE Continuations(b)
         IN IF n < 0 THEN URIError
            ELSE IF \E j \in 1..n : LET c == OctetAt(s, k + 3 * j)
                                    IN c < 128 \/ c > 191
            THEN URIError
            ELSE LET octets == [j \in 1..(n + 1) |-> OctetAt(s, k + 3 * (j - 1))]
                     rest == Decode(s, k + 3 * (n + 1))
                 IN IF rest.ok
                    THEN [ok |-> TRUE, s |-> <<CharOf(octets)>> \o rest.s]
                    ELSE rest

decodeURIComponent(s) == Decode(s, 1)

----------------------------------------------------------------------------
(* JSON                                                                      *)

\* the JSON text of a string without characters that need an escape
Quote(s) == "\"" \o s \o "\""

RECURSIVE JoinWith(_, _)
\* parts.join(sep)
JoinWith(parts, sep) ==
    IF parts = <<>> THEN ""
    ELSE IF Len(parts) = 1 THEN parts[1]
    ELSE parts[1] \o sep \o JoinWith(Tail(parts), sep)

\* the entries of an object that JSON.stringify serialises
Serialisable(entries) == SelectSeq(entries, LAMBDA e : e[2].t # "undefined")

RECURSIVE Stringify(_, _, _)
\* JSON.stringify(v, null, gap) at indentation ind; gap is "" or spaces
Stringify(v, gap, ind) ==
    LET inner == ind \o gap
        open == IF gap = "" THEN "" ELSE "\n" \o inner
        sep == IF gap = "" THEN "," ELSE ",\n" \o inner
        close == IF gap = "" THEN "" ELSE "\n" \o ind
        colon == IF gap = "" THEN ":" ELSE ": "
    IN CASE v.t = "null" -> "null"
         [] v.t = "undefined" -> "null"
         [] v.t = "boolean" -> (IF v.b THEN "true" ELSE "false")
         [] v.t = "number" -> NumberToString(v.n)
         [] v.t = "string" -> Quote(v.s)
         [] v.t = "array" ->
              IF v.a = <<>> THEN "[]"
              ELSE "[" \o open
                   \o JoinWith([i \in 1..Len(v.a) |-> Stringify(v.a[i], gap, inner)], sep)
                   \o close \o "]"
         [] v.t = "object" ->
              LET es == Serialisable(v.o)
              IN IF es = <<>> THEN "{}"
                 ELSE "{" \o open
                      \o JoinWith([i \in 1..Len(es) |->
                              Quote(es[i][1]) \o colon \o Stringify(es[i][2], gap, inner)], sep)
                      \o close \o "}"

\* JSON.stringify(v)
StringifyCompact(v) == Stringify(v, "", "")

\* JSON.stringify(v, null, 2)
StringifyPretty(v) == Stringify(v, "  ", "")

\* args.<name>, args an object
GetField(obj, name) ==
    IF \E i \in 1..Len(obj.o) : obj.o[i][1] = name
    THEN obj.o[CHOOSE i \in 1..Len(obj.o) : obj.o[i][1] = name][2]
    ELSE Undefined

\* value.<name>: [ok |-> TRUE, value |-> v], or a TypeError on null and
\* undefined
GetProp(v, name) ==
    CASE v.t = "null" \/ v.t = "undefined" ->
           [ok |-> FALSE,
            error |-> [class |-> "TypeError",
                       message |-> "Cannot read properties of " \o v.t]]
      [] v.t = "object" -> [ok |-> TRUE, value |-> GetField(v, name)]
      [] OTHER -> [ok |-> TRUE, value |-> Undefined]

----------------------------------------------------------------------------
(* The bridge subprocess, as PythonShell.run reports it                      *)

\* a line of the subprocess's standard output: the text of one JSON value,
\* or text that is not JSON
JsonLine(v) == [isJson |-> TRUE, value |-> v]
TextLine(s) == [isJson |-> FALSE, text |-> s]

\* what the subprocess did
SpawnError(m) == [kind |-> "spawn_error", message |-> m]
ExitNonZero(m) == [kind |-> "exit_nonzero", message |-> m]
ExitZero(lines) == [kind |-> "exit_zero", lines |-> lines]

SyntaxError == [ok |-> FALSE,
                error |-> [class |-> "SyntaxError", message |-> "Unexpected token"]]

\* JSON.parse(result[0]); result[0] is undefined when nothing was printed,
\* and parsing it fails like text that is not JSON
JSONParseFirst(lines) ==
    IF lines = <<>> THEN SyntaxError
    ELSE IF lines[1].isJson THEN [ok |-> TRUE, value |-> lines[1].value]
    ELSE SyntaxError

\* the outcome of `await PythonShell.run(...)` followed by JSON.parse, lines
\* 52-58: the value returned, or the error rethrown
RunResult(outcome) ==
    IF outcome.kind = "exit_zero" THEN JSONParseFirst(outcome.lines)
    ELSE [ok |-> FALSE, error |-> [class |-> "Error", message |-> outcome.message]]

----------------------------------------------------------------------------
(* What a handler does first: it calls runBridgeScript, or it throws        *)

Invoke(command, args) == [kind |-> "invoke", command |-> command, args |-> args]
Throw(error) == [kind |-> "throw", error |-> error]

Error(message) == [class |-> "Error", message |-> message]
\* new McpError(code, message); the code is named as in ErrorCode, and the
\* message is the text given to the constructor
McpError(code, message) == [class |-> "McpError", code |-> code, message |-> message]

\* v ? 'true' : 'false'
TrueFalse(v) == IF Truthy(v) THEN Str("true") ELSE Str("false")

----------------------------------------------------------------------------
(* The read-resource handler                                                 *)

URI_ALL_MIDS == <<"h", "y", "p", "e", "r", "l", "i", "q", "u", "i", "d", ":", "/", "/", "m", "a", "r", "k", "e", "t", "/", "a", "l", "l", "-", "m", "i", "d", "s">>
URI_L2_BOOK == <<"h", "y", "p", "e", "r", "l", "i", "q", "u", "i", "d", ":", "/", "/", "m", "a", "r", "k", "e", "t", "/", "l", "2", "-", "b", "o", "o", "k", "/">>
URI_USER == <<"h", "y", "p", "e", "r", "l", "i", "q", "u", "i", "d", ":", "/", "/", "u", "s", "e", "r", "/">>
URI_STATE == <<"/", "s", "t", "a", "t", "e">>
URI_OPEN_ORDERS == <<"/", "o", "p", "e", "n", "-", "o", "r", "d", "e", "r", "s">>

\* variant: the user templates pass the address of the URI to the bridge
ReadResourceWithAddress(uri) ==
    LET l2BookMatch == MatchSegment(uri, URI_L2_BOOK, <<>>)
        userStateMatch == MatchSegment(uri, URI_USER, URI_STATE)
        openOrdersMatch == MatchSegment(uri, URI_USER, URI_OPEN_ORDERS)
        K_address == <<"a", "d", "d", "r", "e", "s", "s">>
    IN IF uri = URI_ALL_MIDS
       THEN Invoke("market-data", << <<K_dataType, Str("all_mids")>> >>)
       ELSE IF l2BookMatch # <<>>
       THEN LET coin == decodeURIComponent(l2BookMatch)
            IN IF ~coin.ok THEN Throw(coin.error)
               ELSE Invoke("market-data", << <<K_dataType, Str("l2_snapshot")>>,
                                             <<K_coin, Str(Join(coin.s))>> >>)
       ELSE IF userStateMatch # <<>>
       THEN LET address == decodeURIComponent(userStateMatch)
            IN IF ~address.ok THEN Throw(address.error)
               ELSE Invoke("user-data", << <<K_dataType, Str("user_state")>>,
                                           <<K_address, Str(Join(address.s))>> >>)
       ELSE IF openOrdersMatch # <<>>
       THEN LET address == decodeURIComponent(openOrdersMatch)
            IN IF ~address.ok THEN Throw(address.error)
               ELSE Invoke("user-data", << <<K_dataType, Str("open_orders")>>,
                                           <<K_address, Str(Join(address.s))>> >>)
       ELSE Throw(McpError("InvalidRequest", "Invalid URI format: " \o Join(uri)))

\* lines 125-191 up to the first await: the bridge call made for uri, or the
\* error thrown
ReadResource(uri) ==
    LET l2BookMatch == MatchSegment(uri, URI_L2_BOOK, <<>>)
        userStateMatch == MatchSegment(uri, URI_USER, URI_STATE)
        openOrdersMatch == MatchSegment(uri, URI_USER, URI_OPEN_ORDERS)
    IN IF uri = URI_ALL_MIDS
       THEN Invoke("market-data", << <<K_dataType, Str("all_mids")>> >>)
       ELSE IF l2BookMatch # <<>>
       THEN LET coin == decodeURIComponent(l2BookMatch)
            IN IF ~coin.ok THEN Throw(coin.error)
               ELSE Invoke("market-data", << <<K_dataType, Str("l2_snapshot")>>,
                                             <<K_coin, Str(Join(coin.s))>> >>)
       ELSE IF userStateMatch # <<>>
       THEN LET address == decodeURIComponent(userStateMatch)
            IN IF ~address.ok THEN Throw(address.error)
               ELSE Invoke("user-data", << <<K_dataType, Str("user_state")>> >>)
       ELSE IF openOrdersMatch # <<>>
       THEN LET address == decodeURIComponent(openOrdersMatch)
            IN IF ~address.ok THEN Throw(address.error)
               ELSE Invoke("user-data", << <<K_dataType, Str("open_orders")>> >>)
       ELSE Throw(McpError("InvalidRequest", "Invalid URI format: " \o Join(uri)))

\* the value the read-resource handler returns for the bridge's data
ResourceContents(uri, data) ==
    [kind |-> "result",
     contents |-> << [uri |-> uri, mimeType |-> "application/json",
                      text |-> StringifyPretty(data)] >>]

\* lines 130-187 after the await: the handler has no try, so the error of
\* runBridgeScript leaves it
ReadResourceResume(uri, outcome) ==
    LET data == RunResult(outcome)
    IN IF data.ok THEN ResourceContents(uri, data.value) ELSE Throw(data.error)

----------------------------------------------------------------------------
(* The call-tool handler                                                     *)

ToolNames == {"get_market_data", "get_user_data", "place_limit_order",
              "place_market_order", "cancel_order", "update_leverage"}

ArgumentsRequired == Throw(Error("Arguments are required"))

\* case 'get_market_data'
GetMarketData(args) ==
    IF ~Truthy(args) THEN ArgumentsRequired
    ELSE Invoke("market-data", << <<K_dataType, GetField(args, "dataType")>>,
                                  <<K_coin, GetField(args, "coin")>>,
                                  <<K_interval, GetField(args, "interval")>>,
                                  <<K_startTime, GetField(args, "startTime")>>,
                                  <<K_endTime, GetField(args, "endTime")>> >>)

\* case 'get_user_data'
GetUserData(args) ==
    IF ~Truthy(args) THEN ArgumentsRequired
    ELSE Invoke("user-data", << <<K_dataType, GetField(args, "dataType")>>,
                                <<K_startTime, GetField(args, "startTime")>>,
                                <<K_endTime, GetField(args, "endTime")>> >>)

\* variant: the time in force is serialised without the enclosing limit object
PlaceLimitOrderFlatTif(args) ==
    IF ~Truthy(args) THEN ArgumentsRequired
    ELSE LET orderType ==
                 StringifyCompact(Obj(<< <<"tif", GetField(args, "timeInForce")>> >>))
         IN Invoke("place-order", << <<K_coin, GetField(args, "coin")>>,
                                     <<K_isBuy, TrueFalse(GetField(args, "isBuy"))>>,
                                     <<K_size, GetField(args, "size")>>,
                                     <<K_price, GetField(args, "price")>>,
                                     <<K_orderType, Str(orderType)>>,
                                     <<K_reduceOnly, TrueFalse(GetField(args, "reduceOnly"))>>,
                                     <<K_cloid, GetField(args, "clientOrderId")>> >>)

\* case 'place_limit_order'
PlaceLimitOrder(args) ==
    IF ~Truthy(args) THEN ArgumentsRequired
    ELSE LET orderType ==
                 StringifyCompact(Obj(<< <<"limit",
                     Obj(<< <<"tif", GetField(args, "timeInForce")>> >>)>> >>))
         IN Invoke("place-order", << <<K_coin, GetField(args, "coin")>>,
                                     <<K_isBuy, TrueFalse(GetField(args, "isBuy"))>>,
                                     <<K_size, GetField(args, "size")>>,
                                     <<K_price, GetField(args, "price")>>,
                                     <<K_orderType, Str(orderType)>>,
                                     <<K_reduceOnly, TrueFalse(GetField(args, "reduceOnly"))>>,
                                     <<K_cloid, GetField(args, "clientOrderId")>> >>)

\* case 'place_market_order'
PlaceMarketOrder(args) ==
    IF ~Truthy(args) THEN ArgumentsRequired
    ELSE Invoke("market-order", << <<K_coin, GetField(args, "coin")>>,
                                   <<K_isBuy, TrueFalse(GetField(args, "isBuy"))>>,
                                   <<K_size, GetField(args, "size")>>,
                                   <<K_slippage, GetField(args, "slippage")>>,
                                   <<K_cloid, GetField(args, "clientOrderId")>> >>)

\* case 'cancel_order'
CancelOrder(args) ==
    IF ~Truthy(args) THEN ArgumentsRequired
    ELSE Invoke("cancel-order", << <<K_coin, GetField(args, "coin")>>,
                                   <<K_oid, GetField(args, "orderId")>>,
                                   <<K_cloid, GetField(args, "clientOrderId")>> >>)

\* variant: an isCross left out is passed like a false one
UpdateLeverageNoDefault(args) ==
    IF ~Truthy(args) THEN ArgumentsRequired
    ELSE Invoke("update-leverage",
                << <<K_coin, GetField(args, "coin")>>,
                   <<K_leverage, GetField(args, "leverage")>>,
                   <<K_isCross, TrueFalse(GetField(args, "isCross"))>> >>)

\* case 'update_leverage'
UpdateLeverage(args) ==
    IF ~Truthy(args) THEN ArgumentsRequired
    ELSE Invoke("update-leverage",
                << <<K_coin, GetField(args, "coin")>>,
                   <<K_leverage, GetField(args, "leverage")>>,
                   <<K_isCross, IF GetField(args, "isCross").t = "undefined"
                                THEN Str("true")
                                ELSE TrueFalse(GetField(args, "isCross"))>> >>)

\* the switch of lines 399-469: the bridge call made, or the error thrown
CallToolSwitch(name, args) ==
    CASE name = "get_market_data" -> GetMarketData(args)
      [] name = "get_user_data" -> GetUserData(args)
      [] name = "place_limit_order" -> PlaceLimitOrder(args)
      [] name = "place_market_order" -> PlaceMarketOrder(args)
      [] name = "cancel_order" -> CancelOrder(args)
      [] name = "update_leverage" -> UpdateLeverage(args)
      [] OTHER -> Throw(McpError("MethodNotFound", "Unknown tool: " \o name))

\* a tool result; isError is FALSE where the code leaves the property out
ToolResult(text, isError) ==
    [kind |-> "result", content |-> << [type |-> "text", text |-> text] >>,
     isError |-> isError]

\* a variant of CallToolCatch: the message does not name the tool
CallToolCatchNoName(name, error) ==
    ToolResult("Error executing tool: " \o error.message, TRUE)

\* the catch of lines 491-502; every error thrown here is an Error, so the
\* text takes error.message
CallToolCatch(name, error) ==
    ToolResult("Error executing tool " \o name \o ": " \o error.message, TRUE)

\* lines 471-490, inside the try: the response for the bridge's result
CallToolReturn(name, result) ==
    LET err == GetProp(result, "error")
    IN IF ~err.ok THEN CallToolCatch(name, err.error)
       ELSE IF Truthy(err.value)
       THEN ToolResult("Error: " \o String(err.value), TRUE)
       ELSE ToolResult(StringifyPretty(result), FALSE)

\* the handler after the await: runBridgeScript returned or threw
CallToolResume(name, outcome) ==
    LET result == RunResult(outcome)
    IN IF result.ok THEN CallToolReturn(name, result.value)
       ELSE CallToolCatch(name, result.error)

----------------------------------------------------------------------------
(* Inputs                                                                    *)

\* longest path segment tried in a URI
MaxSegLen == 3

EnvValues ==
    [HYPERLIQUID_SECRET_KEY : {Undefined, Str(""), Str("0xKEY")},
     HYPERLIQUID_ACCOUNT_ADDRESS : {Undefined, Str(""), Str("0xABC")},
     HYPERLIQUID_NETWORK : {Undefined, Str("testnet")}]

\* for each tool, the properties of its inputSchema with the values tried
Props(name) ==
    CASE name = "get_market_data" ->
           << <<"dataType", {Str("all_mids"), Str("candles")}>>,
              <<"coin", {Str("BTC")}>>,
              <<"interval", {Str("1h")}>>,
              <<"startTime", {Num(100)}>>,
              <<"endTime", {Num(200)}>> >>
      [] name = "get_user_data" ->
           << <<"dataType", {Str("user_state"), Str("user_fills_by_time")}>>,
              <<"startTime", {Num(100)}>>,
              <<"endTime", {Num(200)}>> >>
      [] name = "place_limit_order" ->
           << <<"coin", {Str("BTC")}>>,
              <<"isBuy", {Bool(TRUE), Bool(FALSE)}>>,
              <<"size", {Num(1)}>>,
              <<"price", {Num(50000)}>>,
              <<"timeInForce", {Str("Gtc"), Str("Ioc"), Str("Alo")}>>,
              <<"reduceOnly", {Bool(TRUE), Bool(FALSE)}>>,
              <<"clientOrderId", {Str("0x1")}>> >>
      [] name = "place_market_order" ->
           << <<"coin", {Str("BTC")}>>,
              <<"isBuy", {Bool(TRUE), Bool(FALSE)}>>,
              <<"size", {Num(1)}>>,
              <<"slippage", {Num(5)}>>,
              <<"clientOrderId", {Str("0x1")}>> >>
      [] name = "cancel_order" ->
           << <<"coin", {Str("BTC")}>>,
              <<"orderId", {Num(0), Num(7)}>>,
              <<"clientOrderId", {Str("0x1"), Null}>> >>
      [] name = "update_leverage" ->
           << <<"coin", {Str("BTC")}>>,
              <<"leverage", {Num(10)}>>,
              <<"isCross", {Bool(TRUE), Bool(FALSE)}>> >>
      [] OTHER -> <<>>

RECURSIVE ArgChoices(_)
\* the objects over props: each property is left out or takes a tried value
ArgChoices(props) ==
    IF props = <<>> THEN {<<>>}
    ELSE LET rest == ArgChoices(Tail(props))
         IN rest \cup {<< <<Head(props)[1], v>> >> \o e : v \in Head(props)[2], e \in rest}

\* request.params.arguments of a call to name: left out, or an object
ArgumentsOf(name) == {Undefined} \cup {Obj(e) : e \in ArgChoices(Props(name))}

RequestNames == ToolNames \cup {"bogus_tool"}

URI_BOGUS == <<"h", "y", "p", "e", "r", "l", "i", "q", "u", "i", "d", ":", "/", "/", "b", "o", "g", "u", "s">>
UriChars == {"%", "4", "B", "/"}
Segments == UNION {[1..n -> UriChars] : n \in 0..MaxSegLen}
UriPrefixes == {URI_ALL_MIDS, URI_L2_BOOK, URI_USER, URI_BOGUS, <<"x">> \o URI_L2_BOOK}
UriSuffixes == {<<>>, URI_STATE, URI_OPEN_ORDERS}
Uris == {p \o seg \o x : p \in UriPrefixes, seg \in Segments, x \in UriSuffixes}

\* the JSON values a bridge is tried with
ErrorPayloads ==
    {Obj(<< <<"error", e>> >>) : e \in {Str("boom"), Num(404), Str(""), Num(0), Bool(FALSE), Null}}
PlainPayloads ==
    {Obj(<< <<"status", Str("ok")>>, <<"mids", Arr(<<Num(1), Obj(<<>>)>>)>> >>),
     Arr(<<Num(1), Str("a")>>), Num(42), Str("abc"), Bool(TRUE), Null}
Payloads == ErrorPayloads \cup PlainPayloads

BridgeOutcomes ==
    {SpawnError("spawn python3 ENOENT"), ExitNonZero("process exited with code 1"),
     ExitZero(<<>>), ExitZero(<<TextLine("Traceback")>>)}
    \cup {ExitZero(<<JsonLine(v)>>) : v \in Payloads}
    \cup {ExitZero(<<JsonLine(Num(42)), TextLine("done")>>)}

----------------------------------------------------------------------------
(* The server                                                                *)

Slots == {"r1"}

NoOutcome == [kind |-> "none"]
NoResponse == [kind |-> "none"]

Idle == [pc |-> "idle", kind |-> "", name |-> "", arguments |-> Undefined,
         uri |-> <<>>, spawns |-> 0, invocation |-> <<>>,
         outcome |-> NoOutcome, response |-> NoResponse]

\* the marshaller has not run
NotRun == [done |-> FALSE, flags |-> <<>>]

Init ==
    /\ env \in EnvValues
    /\ started = "init"
    /\ channel = "Unconnected"
    /\ reqs = [r \in Slots |-> Idle]
    /\ mIn = <<>>
    /\ mOut = NotRun

\* variant: the server is built whether or not a secret key is configured
StartupUnchecked ==
    /\ started = "init"
    /\ started' = "constructed"
    /\ UNCHANGED <<env, channel, reqs, mIn, mOut>>

\* lines 25-31 and 513: the module's top level throws without a secret key,
\* and builds the server otherwise
Startup ==
    /\ started = "init"
    /\ started' = IF ~Truthy(SECRET_KEY) THEN "crashed" ELSE "constructed"
    /\ UNCHANGED <<env, channel, reqs, mIn, mOut>>

\* run(): server.connect(transport)
Connect ==
    /\ started = "constructed"
    /\ channel = "Unconnected"
    /\ channel' = "Connected"
    /\ UNCHANGED <<env, started, reqs, mIn, mOut>>

\* the channel is open and slot r is free: a request can be dispatched
Accepting(r) ==
    /\ started = "constructed"
    /\ channel = "Connected"
    /\ reqs[r].pc = "idle"

\* a handler's first step: runBridgeScript spawns the bridge and the handler
\* awaits it, or the handler ends at once with the response `ended`
Begin(r, kind, name, arguments, uri, step, ended) ==
    /\ Accepting(r)
    /\ reqs' = [reqs EXCEPT ![r] =
          IF step.kind = "invoke"
          THEN [pc |-> "awaiting", kind |-> kind, name |-> name,
                arguments |-> arguments, uri |-> uri, spawns |-> 1,
                invocation |-> BridgeArgs(step.command, step.args),
                outcome |-> NoOutcome, response |-> NoResponse]
          ELSE [pc |-> "responded", kind |-> kind, name |-> name,
                arguments |-> arguments, uri |-> uri, spawns |-> 0,
                invocation |-> <<>>,
                outcome |-> NoOutcome, response |-> ended]]
    /\ UNCHANGED <<env, started, channel, mIn, mOut>>

\* the call-tool handler up to its await; an error thrown in the switch is
\* inside the try
ReceiveCallTool(r, name, arguments) ==
    LET step == CallToolSwitch(name, arguments)
    IN Begin(r, "tool", name, arguments, <<>>, step,
             IF step.kind = "throw" THEN CallToolCatch(name, step.error)
             ELSE NoResponse)

\* the read-resource handler up to its await; an error thrown leaves the
\* handler
ReceiveReadResource(r, uri) ==
    LET step == ReadResource(uri)
    IN Begin(r, "resource", "", Undefined, uri, step,
             IF step.kind = "throw" THEN Throw(step.error) ELSE NoResponse)

\* variant: a bridge that fails closes the channel
BridgeExitClosing(r, outcome) ==
    /\ started = "constructed"
    /\ channel = "Connected"
    /\ reqs[r].pc = "awaiting"
    /\ reqs' = [reqs EXCEPT ![r].pc = "responded",
                            ![r].outcome = outcome,
                            ![r].response =
                                IF reqs[r].kind = "tool"
                                THEN CallToolResume(reqs[r].name, outcome)
                                ELSE ReadResourceResume(reqs[r].uri, outcome)]
    /\ channel' = IF outcome.kind = "exit_zero" THEN channel ELSE "Closed"
    /\ UNCHANGED <<env, started, mIn, mOut>>

\* variant: the handler resumed takes the name and the URI of the request
\* from a place shared by the requests in flight
BridgeExitShared(r, outcome) ==
    /\ started = "constructed"
    /\ channel = "Connected"
    /\ reqs[r].pc = "awaiting"
    /\ LET q == CHOOSE x \in DOMAIN reqs : reqs[x].pc = "awaiting"
       IN reqs' = [reqs EXCEPT ![r].pc = "responded",
                               ![r].outcome = outcome,
                               ![r].response =
                                   IF reqs[r].kind = "tool"
                                   THEN CallToolResume(reqs[q].name, outcome)
                                   ELSE ReadResourceResume(reqs[q].uri, outcome)]
    /\ UNCHANGED <<env, started, channel, mIn, mOut>>

\* the bridge ends and the awaiting handler runs to its end
BridgeExit(r, outcome) ==
    /\ started = "constructed"
    /\ channel = "Connected"
    /\ reqs[r].pc = "awaiting"
    /\ reqs' = [reqs EXCEPT ![r].pc = "responded",
                            ![r].outcome = outcome,
                            ![r].response =
                                IF reqs[r].kind = "tool"
                                THEN CallToolResume(reqs[r].name, outcome)
                                ELSE ReadResourceResume(reqs[r].uri, outcome)]
    /\ UNCHANGED <<env, started, channel, mIn, mOut>>

\* the handler's value or error is written to the channel as the response
SendResponse(r) ==
    /\ started = "constructed"
    /\ channel = "Connected"
    /\ reqs[r].pc = "responded"
    /\ reqs' = [reqs EXCEPT ![r] = Idle]
    /\ UNCHANGED <<env, started, channel, mIn, mOut>>

\* lines 81-84: SIGINT closes the server and exits the process; requests in
\* flight are dropped with it. The listener runs from the event loop, which
\* starts after the top level (line 513) has run the constructor and run()
\* up to its await, so after the transport is connected.
Sigint ==
    /\ started = "constructed"
    /\ channel = "Connected"
    /\ started' = "exited"
    /\ channel' = "Closed"
    /\ reqs' = [r \in DOMAIN reqs |-> Idle]
    /\ UNCHANGED <<env, mIn, mOut>>

Next ==
    \/ Startup
    \/ Connect
    \/ \E r \in DOMAIN reqs :
           /\ Accepting(r)
           /\ \E name \in RequestNames :
                  \E arguments \in ArgumentsOf(name) : ReceiveCallTool(r, name, arguments)
    \/ \E r \in DOMAIN reqs :
           /\ Accepting(r)
           /\ \E uri \in Uris : ReceiveReadResource(r, uri)
    \/ \E r \in DOMAIN reqs :
           /\ reqs[r].pc = "awaiting"
           /\ \E outcome \in BridgeOutcomes : BridgeExit(r, outcome)
    \/ \E r \in DOMAIN reqs : SendResponse(r)
    \/ Sigint

Spec == Init /\ [][Next]_vars

----------------------------------------------------------------------------
(* Several requests in flight: the handlers are async functions, so a       *)
(* request is dispatched while others await their bridges, and the bridges  *)
(* end in any order.                                                        *)

MaxInFlight == 2
ConcSlots == 1..MaxInFlight

ConcCalls ==
    {<<"get_market_data", Obj(<< <<"dataType", Str("all_mids")>> >>)>>,
     <<"update_leverage", Obj(<< <<"coin", Str("BTC")>>, <<"leverage", Num(10)>> >>)>>}
ConcUris == {URI_ALL_MIDS, URI_USER \o <<"B">> \o URI_OPEN_ORDERS}
ConcOutcomes ==
    {ExitNonZero("process exited with code 1"),
     ExitZero(<<JsonLine(Num(1))>>), ExitZero(<<JsonLine(Num(2))>>)}

ConcInit ==
    /\ env \in {e \in EnvValues : /\ e.HYPERLIQUID_NETWORK = Undefined
                                  /\ e.HYPERLIQUID_ACCOUNT_ADDRESS # Str("")}
    /\ started = "init"
    /\ channel = "Unconnected"
    /\ reqs = [r \in ConcSlots |-> Idle]
    /\ mIn = <<>>
    /\ mOut = NotRun

ConcNext ==
    \/ Startup
    \/ Connect
    \/ \E r \in DOMAIN reqs :
           /\ Accepting(r)
           /\ \E call \in ConcCalls : ReceiveCallTool(r, call[1], call[2])
    \/ \E r \in DOMAIN reqs :
           /\ Accepting(r)
           /\ \E uri \in ConcUris : ReceiveReadResource(r, uri)
    \/ \E r \in DOMAIN reqs :
           /\ reqs[r].pc = "awaiting"
           /\ \E outcome \in ConcOutcomes : BridgeExit(r, outcome)
    \/ \E r \in DOMAIN reqs : SendResponse(r)
    \/ Sigint

SpecConc == ConcInit /\ [][ConcNext]_vars

----------------------------------------------------------------------------
(* The marshaller on its own: runBridgeScript's flatMap applied to one       *)
(* mapping                                                                   *)

\* most entries of a mapping tried
MaxFields == 3

MarshalKeys == {K_startTime, K_isBuy, K_coin, K_reduceOnly}
AllKeys == {K_dataType, K_coin, K_interval, K_startTime, K_endTime, K_isBuy,
            K_size, K_price, K_orderType, K_reduceOnly, K_cloid, K_slippage,
            K_oid, K_leverage, K_isCross}
MarshalValues == {Undefined, Null, Bool(TRUE), Bool(FALSE), Num(100), Num(0),
                  Str("BTC")}

\* mappings: entry sequences with pairwise different keys
Mappings(keys, n) ==
    {m \in UNION {[1..k -> keys \X MarshalValues] : k \in 0..n} :
        \A i, j \in 1..Len(m) : i # j => m[i][1] # m[j][1]}

MarshalInputs == Mappings(MarshalKeys, MaxFields) \cup Mappings(AllKeys, 1)

MarshalInit ==
    /\ env = [HYPERLIQUID_SECRET_KEY |-> Str("0xKEY"),
              HYPERLIQUID_ACCOUNT_ADDRESS |-> Undefined,
              HYPERLIQUID_NETWORK |-> Undefined]
    /\ started = "constructed"
    /\ channel = "Connected"
    /\ reqs = [r \in Slots |-> Idle]
    /\ mIn \in MarshalInputs
    /\ mOut = NotRun

\* lines 45-48 applied to mIn
Marshal ==
    /\ ~mOut.done
    /\ mOut' = [done |-> TRUE, flags |-> MarshalArgs(mIn)]
    /\ UNCHANGED <<env, started, channel, reqs, mIn>>

MarshalNext == Marshal

SpecMarshal == MarshalInit /\ [][MarshalNext]_vars

----------------------------------------------------------------------------
(* Properties                                                                *)

\* the requests being handled
Active == {r \in DOMAIN reqs : reqs[r].pc # "idle"}
Responded == {r \in DOMAIN reqs : reqs[r].pc = "responded"}
ToolCalls == {r \in Active : reqs[r].kind = "tool"}
Reads == {r \in Active : reqs[r].kind = "resource"}

\* the caller gave field f a value
Supplied(arguments, f) ==
    /\ arguments.t = "object"
    /\ GetField(arguments, f).t \notin {"undefined", "null"}

\* the response is a tool result carrying the error flag
IsErrorResult(response) == response.kind = "result" /\ response.isError

\* the response is the protocol error `code`
IsProtocolError(response, code) ==
    /\ response.kind = "throw"
    /\ response.error.class = "McpError"
    /\ response.error.code = code

\* C1: a call-tool request whose tool name is not catalogued is answered
\* with a method-not-found protocol error and not with a tool result; no
\* bridge is spawned for it and the channel stays Connected.
C1_UnknownToolIsMethodNotFound ==
    \A r \in ToolCalls :
        reqs[r].name \notin ToolNames =>
            /\ reqs[r].pc = "responded"
            /\ IsProtocolError(reqs[r].response, "MethodNotFound")
            /\ reqs[r].spawns = 0
            /\ channel = "Connected"

\* C2: a cancel_order call that supplies neither orderId nor clientOrderId is
\* rejected with an error-flagged response and spawns no bridge.
C2_CancelWithoutIdSpawnsNothing ==
    \A r \in ToolCalls :
        (/\ reqs[r].name = "cancel_order"
         /\ ~Supplied(reqs[r].arguments, "orderId")
         /\ ~Supplied(reqs[r].arguments, "clientOrderId")) =>
            /\ reqs[r].spawns = 0
            /\ reqs[r].pc = "responded"
            /\ IsErrorResult(reqs[r].response)

\* the `required` lists of the tools' inputSchema
Required(name) ==
    CASE name = "get_market_data" -> {"dataType"}
      [] name = "get_user_data" -> {"dataType"}
      [] name = "place_limit_order" -> {"coin", "isBuy", "size", "price", "timeInForce"}
      [] name = "place_market_order" -> {"coin", "isBuy", "size"}
      [] name = "cancel_order" -> {"coin"}
      [] name = "update_leverage" -> {"coin", "leverage"}
      [] OTHER -> {}

\* C3: a call that omits a field of its tool's required list gets a tool
\* result with the error flag, and no bridge invocation is built or run.
C3_MissingRequiredIsRejected ==
    \A r \in ToolCalls :
        (\E f \in Required(reqs[r].name) : ~Supplied(reqs[r].arguments, f)) =>
            /\ reqs[r].spawns = 0
            /\ reqs[r].invocation = <<>>
            /\ reqs[r].pc = "responded"
            /\ IsErrorResult(reqs[r].response)

\* the bridge could not be spawned, exited non-zero, printed nothing, or
\* printed a first line that is not JSON
BridgeFailed(outcome) ==
    \/ outcome.kind \in {"spawn_error", "exit_nonzero"}
    \/ /\ outcome.kind = "exit_zero"
       /\ (outcome.lines = <<>> \/ ~outcome.lines[1].isJson)

\* the message of the failure: the one PythonShell reports, or JSON.parse's
FailureMessage(outcome) ==
    IF outcome.kind = "exit_zero" THEN "Unexpected token" ELSE outcome.message

\* C4: whatever way the bridge of a catalogued tool fails, the handler
\* returns one text entry "Error executing tool <name>: <message>" with the
\* error flag, and the channel is still Connected.
C4_BridgeFailureIsToolError ==
    \A r \in ToolCalls \cap Responded :
        (reqs[r].name \in ToolNames /\ BridgeFailed(reqs[r].outcome)) =>
            /\ reqs[r].response =
                   [kind |-> "result",
                    content |-> << [type |-> "text",
                                    text |-> "Error executing tool " \o reqs[r].name
                                             \o ": " \o FailureMessage(reqs[r].outcome)] >>,
                    isError |-> TRUE]
            /\ channel = "Connected"

\* a place_limit_order call has been answered after its bridge exited
\* non-zero
C4_Witness ==
    \E r \in ToolCalls \cap Responded :
        /\ reqs[r].name = "place_limit_order"
        /\ reqs[r].outcome.kind = "exit_nonzero"
        /\ reqs[r].spawns = 1


\* the bridge exited zero and printed exactly the JSON value v
Printed(outcome, v) == outcome = ExitZero(<<JsonLine(v)>>)

\* v is a JSON object with an entry named "error"
HasErrorField(v) == v.t = "object" /\ \E i \in 1..Len(v.o) : v.o[i][1] = "error"

\* the value of that entry
ErrorField(v) == v.o[CHOOSE i \in 1..Len(v.o) : v.o[i][1] = "error"][2]

\* the response is the one text entry `text`, with or without the error flag
IsText(response, text, flagged) ==
    response = [kind |-> "result",
                content |-> << [type |-> "text", text |-> text] >>,
                isError |-> flagged]

\* C5: a bridge result with an error field, whatever its value, is answered
\* "Error: <message>" with the error flag, never as a success.
C5_AnyErrorFieldIsError ==
    \A r \in ToolCalls \cap Responded : \A v \in Payloads :
        (reqs[r].name \in ToolNames /\ Printed(reqs[r].outcome, v) /\ HasErrorField(v)) =>
            IsText(reqs[r].response, "Error: " \o String(ErrorField(v)), TRUE)

\* C6: a bridge result without an error field, whatever JSON value it is, is
\* answered with one text entry holding its pretty-printed form and no
\* error flag.
C6_PlainValueIsPassedThrough ==
    \A r \in ToolCalls \cap Responded : \A v \in Payloads :
        (reqs[r].name \in ToolNames /\ Printed(reqs[r].outcome, v) /\ ~HasErrorField(v)) =>
            /\ reqs[r].response.kind = "result"
            /\ ~reqs[r].response.isError
            /\ Len(reqs[r].response.content) = 1
            /\ reqs[r].response.content[1].text = StringifyPretty(v)

\* the flags of an argument list that follow the credentials and the network
CallSpecific(invocation) ==
    SubSeq(invocation, IF Truthy(ACCOUNT_ADDRESS) THEN 8 ELSE 6, Len(invocation))

\* X is one non-empty path segment
IsSegment(x) == x # <<>> /\ \A i \in 1..Len(x) : x[i] # "/"

\* the request spawned one bridge with this command and these call flags
Selected(r, command, flags) ==
    /\ reqs[r].spawns = 1
    /\ reqs[r].invocation # <<>>
    /\ reqs[r].invocation[1] = command
    /\ CallSpecific(reqs[r].invocation) = flags

\* C7: read-resource matching agrees with the catalog for every URI: the
\* literal, the three templates with one non-empty segment (the coin being
\* the percent-decoded segment), and an invalid-request protocol error with
\* no bridge for every other URI.
C7_MatchingAgreesWithCatalog ==
    \A r \in Reads :
        LET uri == reqs[r].uri
            isL2(x) == uri = URI_L2_BOOK \o x
            isState(x) == uri = URI_USER \o x \o URI_STATE
            isOrders(x) == uri = URI_USER \o x \o URI_OPEN_ORDERS
            segs == {x \in Segments : IsSegment(x)}
        IN /\ uri = URI_ALL_MIDS =>
                  Selected(r, "market-data", <<"--data-type", "all_mids">>)
           /\ \A x \in segs :
                  /\ isL2(x) =>
                       /\ reqs[r].spawns = 1
                       /\ decodeURIComponent(x).ok
                       /\ Selected(r, "market-data",
                                   <<"--data-type", "l2_snapshot",
                                     "--coin", Join(decodeURIComponent(x).s)>>)
                  /\ isState(x) =>
                       Selected(r, "user-data", <<"--data-type", "user_state">>)
                  /\ isOrders(x) =>
                       Selected(r, "user-data", <<"--data-type", "open_orders">>)
           /\ (/\ uri # URI_ALL_MIDS
               /\ \A x \in segs : ~isL2(x) /\ ~isState(x) /\ ~isOrders(x)) =>
                  /\ reqs[r].pc = "responded"
                  /\ IsProtocolError(reqs[r].response, "InvalidRequest")
                  /\ reqs[r].spawns = 0


\* the flag each field name is to become
ExpectedFlag(key) ==
    CASE key = K_dataType -> "--data-type"
      [] key = K_coin -> "--coin"
      [] key = K_interval -> "--interval"
      [] key = K_startTime -> "--start-time"
      [] key = K_endTime -> "--end-time"
      [] key = K_isBuy -> "--is-buy"
      [] key = K_size -> "--size"
      [] key = K_price -> "--price"
      [] key = K_orderType -> "--order-type"
      [] key = K_reduceOnly -> "--reduce-only"
      [] key = K_cloid -> "--cloid"
      [] key = K_slippage -> "--slippage"
      [] key = K_oid -> "--oid"
      [] key = K_leverage -> "--leverage"
      [] key = K_isCross -> "--is-cross"

\* the text each value tried is to become
ExpectedText(value) ==
    CASE value = Bool(TRUE) -> "true"
      [] value = Bool(FALSE) -> "false"
      [] value = Num(100) -> "100"
      [] value = Num(0) -> "0"
      [] value = Str("BTC") -> "BTC"

\* the entries of a mapping whose value is present
Present(mapping) ==
    SelectSeq(mapping, LAMBDA e : e[2] # Undefined /\ e[2] # Null)

\* C8: the marshaller maps each field whose value is present to one pair
\* (flag, String(value)), the flag being "--" and the field name with every
\* uppercase letter replaced by '-' and its lowercase form, in the mapping's
\* order; a field whose value is undefined or null yields no flag.
C8_MarshalPresentFieldsInOrder ==
    mOut.done =>
        LET present == Present(mIn)
        IN /\ Len(mOut.flags) = 2 * Len(present)
           /\ \A i \in 1..Len(present) :
                  /\ mOut.flags[2 * i - 1] = ExpectedFlag(present[i][1])
                  /\ mOut.flags[2 * i] = ExpectedText(present[i][2])

\* {startTime: 100, coin: null, isBuy: true} has been marshalled to
\* --start-time 100 --is-buy true
C8_Witness ==
    /\ mOut.done
    /\ mIn = << <<K_startTime, Num(100)>>, <<K_coin, Null>>, <<K_isBuy, Bool(TRUE)>> >>
    /\ mOut.flags = <<"--start-time", "100", "--is-buy", "true">>


\* the properties a tool's inputSchema declares, and those it does not require
Properties(name) == {Props(name)[i][1] : i \in 1..Len(Props(name))}
Optional(name) == Properties(name) \ Required(name)

\* the flag under which each schema property reaches the bridge
FlagOfProperty(f) ==
    CASE f = "dataType" -> "--data-type"
      [] f = "coin" -> "--coin"
      [] f = "interval" -> "--interval"
      [] f = "startTime" -> "--start-time"
      [] f = "endTime" -> "--end-time"
      [] f = "isBuy" -> "--is-buy"
      [] f = "size" -> "--size"
      [] f = "price" -> "--price"
      [] f = "timeInForce" -> "--order-type"
      [] f = "reduceOnly" -> "--reduce-only"
      [] f = "clientOrderId" -> "--cloid"
      [] f = "slippage" -> "--slippage"
      [] f = "orderId" -> "--oid"
      [] f = "leverage" -> "--leverage"
      [] f = "isCross" -> "--is-cross"

\* the flag names of a flag sequence, and whether it holds the pair (f, v)
FlagNames(flags) == {flags[i] : i \in {j \in 1..Len(flags) : j % 2 = 1}}
HasPair(flags, f, v) ==
    \E i \in 1..(Len(flags) - 1) : i % 2 = 1 /\ flags[i] = f /\ flags[i + 1] = v

\* the tool calls that reached the bridge
Invoked == {r \in ToolCalls : reqs[r].spawns = 1}

\* C9 as stated: an optional field the caller did not supply contributes no
\* flag, and the call-specific flags are those of the supplied fields plus
\* the composed order type.
C9_AbsentOptionalHasNoFlag ==
    \A r \in Invoked :
        LET flags == CallSpecific(reqs[r].invocation)
        IN /\ \A f \in Optional(reqs[r].name) :
                  ~Supplied(reqs[r].arguments, f) => FlagOfProperty(f) \notin FlagNames(flags)
           /\ \A g \in FlagNames(flags) :
                  \/ g = "--order-type"
                  \/ \E f \in Properties(reqs[r].name) :
                         Supplied(reqs[r].arguments, f) /\ FlagOfProperty(f) = g

\* C9 as amended: an optional field other than reduceOnly and isCross that
\* the caller did not supply contributes no flag; reduceOnly and isCross are
\* always passed, as "false" and as "true" when left out; every other
\* call-specific flag is that of a supplied field, of the order type or of
\* isBuy.
C9_AbsentOptionalExceptDefaulted ==
    \A r \in Invoked :
        LET flags == CallSpecific(reqs[r].invocation)
            name == reqs[r].name
            arguments == reqs[r].arguments
        IN /\ \A f \in Optional(name) \ {"reduceOnly", "isCross"} :
                  ~Supplied(arguments, f) => FlagOfProperty(f) \notin FlagNames(flags)
           /\ (name = "place_limit_order" /\ ~Supplied(arguments, "reduceOnly")) =>
                  HasPair(flags, "--reduce-only", "false")
           /\ (name = "update_leverage" /\ ~Supplied(arguments, "isCross")) =>
                  HasPair(flags, "--is-cross", "true")
           /\ \A g \in FlagNames(flags) :
                  \/ g \in {"--order-type", "--is-buy", "--reduce-only", "--is-cross"}
                  \/ \E f \in Properties(name) :
                         Supplied(arguments, f) /\ FlagOfProperty(f) = g

\* a place_limit_order call without reduceOnly and clientOrderId is at the
\* bridge, with --reduce-only false and without --cloid
C9_Witness ==
    \E r \in Invoked :
        /\ reqs[r].name = "place_limit_order"
        /\ Supplied(reqs[r].arguments, "coin")
        /\ ~Supplied(reqs[r].arguments, "reduceOnly")
        /\ ~Supplied(reqs[r].arguments, "clientOrderId")
        /\ HasPair(CallSpecific(reqs[r].invocation), "--reduce-only", "false")
        /\ "--cloid" \notin FlagNames(CallSpecific(reqs[r].invocation))

Commands == {"market-data", "user-data", "place-order", "market-order",
             "cancel-order", "update-leverage"}

CallFlags == {ExpectedFlag(k) : k \in AllKeys}

\* C10: every bridge invocation is a command of the six, then --secret-key
\* and the secret key, then --network and the network, then
\* --account-address and the address if and only if a non-empty address is
\* configured, and only then the call-specific flags.
C10_CredentialsComeFirst ==
    \A r \in Active :
        reqs[r].spawns = 1 =>
            LET inv == reqs[r].invocation
                address == env.HYPERLIQUID_ACCOUNT_ADDRESS
                configured == address.t = "string" /\ address.s # ""
                rest == SubSeq(inv, IF configured THEN 8 ELSE 6, Len(inv))
            IN /\ Len(inv) >= 5
               /\ inv[1] \in Commands
               /\ inv[2] = "--secret-key"
               /\ inv[3] = env.HYPERLIQUID_SECRET_KEY.s
               /\ inv[4] = "--network"
               /\ inv[5] = (IF env.HYPERLIQUID_NETWORK = Str("testnet")
                            THEN "testnet" ELSE "mainnet")
               /\ configured =>
                      /\ Len(inv) >= 7
                      /\ inv[6] = "--account-address"
                      /\ inv[7] = address.s
               /\ Len(rest) % 2 = 0
               /\ FlagNames(rest) \subseteq CallFlags

\* a bridge is running for a read while the configured address is the empty
\* string, and for a tool call while an address is configured
C10_Witness ==
    \E r \in Active :
        /\ reqs[r].spawns = 1
        /\ \/ /\ reqs[r].kind = "resource"
              /\ env.HYPERLIQUID_ACCOUNT_ADDRESS = Str("")
              /\ Len(reqs[r].invocation) = 7
           \/ /\ reqs[r].kind = "tool"
              /\ env.HYPERLIQUID_ACCOUNT_ADDRESS = Str("0xABC")
              /\ Len(reqs[r].invocation) > 7

\* the number of flags named f in a flag sequence
Count(flags, f) == Cardinality({i \in 1..Len(flags) : i % 2 = 1 /\ flags[i] = f})

\* the text of {"limit":{"tif":T}} for the three times in force
OrderTypeText(tif) ==
    CASE tif = "Gtc" -> "{\"limit\":{\"tif\":\"Gtc\"}}"
      [] tif = "Ioc" -> "{\"limit\":{\"tif\":\"Ioc\"}}"
      [] tif = "Alo" -> "{\"limit\":{\"tif\":\"Alo\"}}"

\* the place_limit_order calls at the bridge whose timeInForce is one of the three
LimitOrders ==
    {r \in Invoked : /\ reqs[r].name = "place_limit_order"
                      /\ Supplied(reqs[r].arguments, "timeInForce")
                      /\ GetField(reqs[r].arguments, "timeInForce") \in
                             {Str("Gtc"), Str("Ioc"), Str("Alo")}}

\* C11: a place_limit_order call with timeInForce T of Gtc, Ioc, Alo runs the
\* bridge with command place-order and exactly one --order-type flag, whose
\* value is the text {"limit":{"tif":T}}; the coin, size and price of the
\* call are passed as --coin, --size and --price, and --is-buy carries true
\* or false as the call's isBuy is true or not.
C11_LimitOrderComposesOrderType ==
    \A r \in LimitOrders :
        LET flags == CallSpecific(reqs[r].invocation)
            arguments == reqs[r].arguments
        IN /\ reqs[r].invocation[1] = "place-order"
           /\ Count(flags, "--order-type") = 1
           /\ HasPair(flags, "--order-type",
                      OrderTypeText(GetField(arguments, "timeInForce").s))
           /\ Supplied(arguments, "coin") =>
                  HasPair(flags, "--coin", GetField(arguments, "coin").s)
           /\ Supplied(arguments, "size") => HasPair(flags, "--size", "1")
           /\ Supplied(arguments, "price") => HasPair(flags, "--price", "50000")
           /\ HasPair(flags, "--is-buy",
                      IF GetField(arguments, "isBuy") = Bool(TRUE) THEN "true" ELSE "false")

\* a full limit order to sell with Ioc is at the bridge
C11_Witness ==
    \E r \in LimitOrders :
        /\ GetField(reqs[r].arguments, "timeInForce") = Str("Ioc")
        /\ GetField(reqs[r].arguments, "isBuy") = Bool(FALSE)
        /\ Supplied(reqs[r].arguments, "coin")
        /\ Supplied(reqs[r].arguments, "size")
        /\ Supplied(reqs[r].arguments, "price")
        /\ HasPair(CallSpecific(reqs[r].invocation), "--order-type",
                   "{\"limit\":{\"tif\":\"Ioc\"}}")

\* the update_leverage calls at the bridge
LeverageUpdates == {r \in Invoked : reqs[r].name = "update_leverage"}

\* C12: every update_leverage call runs the bridge with one --is-cross flag,
\* whose value is true when the call has no isCross, true when isCross is
\* true and false when isCross is false.
C12_IsCrossDefaultsToTrue ==
    \A r \in LeverageUpdates :
        LET flags == CallSpecific(reqs[r].invocation)
            isCross == GetField(reqs[r].arguments, "isCross")
        IN /\ Count(flags, "--is-cross") = 1
           /\ isCross = Undefined => HasPair(flags, "--is-cross", "true")
           /\ isCross = Bool(TRUE) => HasPair(flags, "--is-cross", "true")
           /\ isCross = Bool(FALSE) => HasPair(flags, "--is-cross", "false")

\* an update_leverage call without isCross is at the bridge with
\* --is-cross true
C12_Witness ==
    \E r \in LeverageUpdates :
        /\ GetField(reqs[r].arguments, "isCross") = Undefined
        /\ Supplied(reqs[r].arguments, "leverage")
        /\ HasPair(CallSpecific(reqs[r].invocation), "--is-cross", "true")

\* C13: without a secret key (unset or empty) the process fails during
\* startup: the server is never built, the channel stays Unconnected, no
\* handler runs, no bridge is spawned and no request gets a response, so
\* the missing key is never reported as the error of a request.
C13_NoSecretKeyFailsAtStartup ==
    ~Truthy(SECRET_KEY) =>
        /\ started \in {"init", "crashed"}
        /\ channel = "Unconnected"
        /\ \A r \in DOMAIN reqs :
               /\ reqs[r].pc = "idle"
               /\ reqs[r].spawns = 0
               /\ reqs[r].response = NoResponse

\* the process has failed at startup on an empty secret key
C13_Witness ==
    /\ SECRET_KEY = Str("")
    /\ started = "crashed"
    /\ channel = "Unconnected"

\* the URI is the literal or one of the three templates with one non-empty
\* segment
Matches(uri) ==
    \/ uri = URI_ALL_MIDS
    \/ \E x \in Segments :
           /\ IsSegment(x)
           /\ \/ uri = URI_L2_BOOK \o x
              \/ uri = URI_USER \o x \o URI_STATE
              \/ uri = URI_USER \o x \o URI_OPEN_ORDERS

\* the requests the bridge is to serve: calls of a catalogued tool with an
\* arguments object, and reads of a matching URI
Served ==
    {r \in ToolCalls : reqs[r].name \in ToolNames /\ reqs[r].arguments.t = "object"}
        \cup {r \in Reads : Matches(reqs[r].uri)}

\* C14: every call of a catalogued tool with an arguments object and every
\* read of a matching URI spawns exactly one bridge and, once answered, has
\* consumed exactly one result of it; a failure of that bridge is reported
\* in the response of the request; no request spawns a second bridge.
C14_OneBridgePerRequest ==
    /\ \A r \in DOMAIN reqs : reqs[r].spawns \in {0, 1}
    /\ \A r \in Served :
           /\ reqs[r].spawns = 1
           /\ reqs[r].pc = "awaiting" => reqs[r].outcome = NoOutcome
           /\ reqs[r].pc = "responded" =>
                  /\ reqs[r].outcome \in BridgeOutcomes
                  /\ BridgeFailed(reqs[r].outcome) =>
                         IF reqs[r].kind = "tool"
                         THEN IsErrorResult(reqs[r].response)
                         ELSE /\ reqs[r].response.kind = "throw"
                              /\ reqs[r].response.error.message =
                                     FailureMessage(reqs[r].outcome)

\* the Configuration read from the environment at lines 25-27
Configuration == <<SECRET_KEY, ACCOUNT_ADDRESS, NETWORK>>

\* the command the bridge of a request is to run, from the request alone
OwnCommand(req) ==
    IF req.kind = "resource"
    THEN (IF req.uri = URI_ALL_MIDS THEN "market-data" ELSE "user-data")
    ELSE (IF req.name = "get_market_data" THEN "market-data" ELSE "update-leverage")

\* the text of the value a bridge printed
OwnText(outcome) ==
    IF outcome = ExitZero(<<JsonLine(Num(1))>>) THEN "1" ELSE "2"

\* the response a request is to get, from the request and the outcome of
\* its bridge alone
OwnResponse(req) ==
    IF req.kind = "tool"
    THEN (IF req.outcome.kind = "exit_nonzero"
          THEN [kind |-> "result",
                content |-> << [type |-> "text",
                                text |-> "Error executing tool " \o req.name
                                         \o ": " \o req.outcome.message] >>,
                isError |-> TRUE]
          ELSE [kind |-> "result",
                content |-> << [type |-> "text", text |-> OwnText(req.outcome)] >>,
                isError |-> FALSE])
    ELSE (IF req.outcome.kind = "exit_nonzero"
          THEN [kind |-> "throw",
                error |-> [class |-> "Error", message |-> req.outcome.message]]
          ELSE [kind |-> "result",
                contents |-> << [uri |-> req.uri, mimeType |-> "application/json",
                                 text |-> OwnText(req.outcome)] >>])

\* every request in flight runs the bridge its own name or URI selects, and
\* every answered request holds the response of its own bridge's outcome
OwnResult ==
    \A r \in Active :
        /\ reqs[r].spawns = 1
        /\ reqs[r].invocation[1] = OwnCommand(reqs[r])
        /\ reqs[r].pc = "responded" => reqs[r].response = OwnResponse(reqs[r])

\* a step other than the shutdown changes at most one request, and once a
\* request has its outcome and response no step of another request changes
\* them
OwnStep ==
    /\ Configuration' = Configuration
    /\ started' = started =>
           \A r, q \in DOMAIN reqs :
               (r # q /\ reqs'[r] # reqs[r]) => reqs'[q] = reqs[q]

\* C15: with several requests in flight and their bridges ending in any
\* order, each response is computed from the request's own name, arguments
\* or URI and the outcome of its own bridge, no step of one request touches
\* another, and the Configuration keeps its value in every step.
C15_RequestsAreIsolated == []OwnResult /\ [][OwnStep]_vars

\* two requests of different kinds are answered at once, one with the
\* failure of its bridge and the other with the value of its own
C15_Witness ==
    \E r, q \in Responded :
        /\ reqs[r].kind = "tool"
        /\ reqs[r].name = "update_leverage"
        /\ reqs[r].outcome.kind = "exit_nonzero"
        /\ reqs[q].kind = "resource"
        /\ reqs[q].outcome = ExitZero(<<JsonLine(Num(2))>>)
        /\ reqs[q].response.kind = "result"

\* a step of the channel: it opens once, when the server built at startup
\* connects; it closes only from Connected, with the shutdown; closed, it
\* stays closed and no request is dispatched; a step in which a request
\* starts, gets its outcome or is answered leaves it Connected
ChannelStep ==
    /\ channel' # channel =>
           \/ /\ channel = "Unconnected"
              /\ channel' = "Connected"
              /\ started = "constructed"
           \/ /\ channel = "Connected"
              /\ channel' = "Closed"
              /\ started' = "exited"
    /\ channel = "Closed" =>
           /\ channel' = "Closed"
           /\ \A r \in DOMAIN reqs : reqs[r].pc = "idle" /\ reqs'[r].pc = "idle"
    /\ (\E r \in DOMAIN reqs : reqs'[r].pc \in {"awaiting", "responded"}
                                 /\ reqs'[r] # reqs[r]) =>
           channel = "Connected" /\ channel' = "Connected"
    /\ (started' = started /\ reqs' # reqs) =>
           channel = "Connected" /\ channel' = "Connected"

\* C16: the channel only moves Unconnected -> Connected -> Closed; Closed is
\* terminal and no request is dispatched to a handler once the channel is
\* Closed; no outcome of a tool call or of a read, bridge failures and
\* protocol errors included, moves the channel out of Connected.
C16_ChannelLifecycle == [][ChannelStep]_vars

\* the channel has been closed by the shutdown after it was Connected
C16_Witness ==
    /\ channel = "Closed"
    /\ started = "exited"
    /\ \A r \in DOMAIN reqs : reqs[r].pc = "idle"

\* the reads of the user template ending in suffix for which a bridge was
\* built
UserReads(suffix) ==
    {r \in Reads : /\ reqs[r].spawns = 1
                    /\ \E x \in Segments :
                           IsSegment(x) /\ reqs[r].uri = URI_USER \o x \o suffix}

\* the argument list of user-data for the configured account: it names no
\* address but the configured one
UserDataArgs(dataType) ==
    <<"user-data", "--secret-key", env.HYPERLIQUID_SECRET_KEY.s, "--network",
      IF env.HYPERLIQUID_NETWORK = Str("testnet") THEN "testnet" ELSE "mainnet">>
        \o (IF env.HYPERLIQUID_ACCOUNT_ADDRESS \in {Undefined, Str("")} THEN <<>>
            ELSE <<"--account-address", env.HYPERLIQUID_ACCOUNT_ADDRESS.s>>)
        \o <<"--data-type", dataType>>

====
